---- MODULE Spec2Model ----
(***************************************************************************)
(* Model of src/app.py: the debounced cross-posting relay.                 *)
(*                                                                         *)
(* One asyncio event loop runs everything.  Code between two awaits that   *)
(* really suspend is one atomic step; the publishers use blocking calls    *)
(* (requests, tweepy), so inside post_to_social the only suspension is the *)
(* backoff sleep of post_with_retry.  Inbound updates are handled one at a *)
(* time (Application.builder() without concurrent_updates), while every    *)
(* wait_and_post timer is a task of its own.                               *)
(***************************************************************************)
EXTENDS Integers, Sequences, FiniteSets, Bags, TLC

VARIABLES
    pending_posts,  \* the dict pending_posts: user id -> entry
    tasks,          \* every task made by asyncio.create_task(wait_and_post(..)), by handle
    handler,        \* the inbound handler in flight (handle_photo), or idle
    calls,          \* every invocation of post_to_social, with its progress
    replies,        \* the messages sent back through the transport (a bag)
    arrivals,       \* every inbound update, in order of arrival
    budget,         \* what the environment may still do (the bounds of a run)
    bluesky_client, \* the BlueskyClient object: whether self.session is held
    requests,       \* the HTTP requests of the Farcaster and Bluesky publishers
    eval            \* the arguments and results of a function evaluated on its own

vars == <<pending_posts, tasks, handler, calls, replies, arrivals, budget,
          bluesky_client, requests, eval>>

(***************************************************************************)
(* Bounds of the model.                                                    *)
(***************************************************************************)
MaxTexts  == 3    \* text updates
MaxPhotos == 1    \* photo updates
MaxFaults == 1    \* publisher invocations that raise
MaxDrops  == 2    \* transport calls (send, reply, get_file, download) that raise

Users == {"u1", "u2"}

(***************************************************************************)
(* Program constants.                                                      *)
(***************************************************************************)
max_retries == 3

Platforms == <<"twitter", "farcaster", "bluesky">>   \* in the order post_to_social tries them
NPlatforms == Len(Platforms)

FailedMsg == "Failed posting to social platforms"
\* Mutant of PromptMsg: the photo without text is answered with the wrong notice.
PromptMsg_wrong_notice == FailedMsg
PromptMsg == "Please send text first."

\* What one invocation of a publisher does: it returns ("ok"); it raises an
\* error whose response has status 429 ("rate"); it raises an error without
\* the attribute response, or whose response has another status ("hard"); or
\* it raises an error whose attribute response is None, as the errors of
\* requests do when no response was received ("down").
Outcomes == {"ok", "rate", "hard", "down"}

\* Line 259 evaluated on an error whose response is None: e.response.status_code
\* raises AttributeError inside the except clause.  In got it stands for an
\* error that no invocation raised.
AttributeError == -1
Oracles  == [1..NPlatforms -> Outcomes]

(***************************************************************************)
(* Strings.  Python compares strings by code point; the display names are  *)
(* given with their code points so that list.sort() is computed, not       *)
(* assumed.                                                                *)
(***************************************************************************)
CodePoints(name) ==
    CASE name = "Bluesky"   -> <<66, 108, 117, 101, 115, 107, 121>>
      [] name = "Farcaster" -> <<70, 97, 114, 99, 97, 115, 116, 101, 114>>
      [] name = "X"         -> <<88>>

RECURSIVE LexLess(_, _)
LexLess(a, b) ==
    IF a = <<>> THEN b # <<>>
    ELSE IF b = <<>> THEN FALSE
    ELSE IF Head(a) # Head(b) THEN Head(a) < Head(b)
    ELSE LexLess(Tail(a), Tail(b))

StrLess(s, t) == LexLess(CodePoints(s), CodePoints(t))

\* list.sort()
sort(list) == SortSeq(list, StrLess)

\* sep.join(list)
RECURSIVE join(_, _)
join(sep, list) ==
    IF list = <<>> THEN ""
    ELSE IF Len(list) = 1 THEN list[1]
    ELSE list[1] \o sep \o join(sep, Tail(list))

(***************************************************************************)
(* post_to_social, lines 426-458: the status message.  success maps the    *)
(* index of a platform in Platforms to its *_success flag.                 *)
(***************************************************************************)
Partition(success) ==
    LET add(acc, idx, name) ==
            IF success[idx]
            THEN [acc EXCEPT !.successes = Append(@, name)]
            ELSE [acc EXCEPT !.failures = Append(@, name)]
        a0 == [successes |-> <<>>, failures |-> <<>>]
        a1 == add(a0, 3, "Bluesky")
        a2 == add(a1, 2, "Farcaster")
    IN  add(a2, 1, "X")

\* Mutant of status_parts: the "Posted:" segment is not left out when empty.
status_parts_posted_always(successes, failures) ==
    <<"Posted: " \o join(", ", successes)>>
    \o (IF failures # <<>> THEN <<"Failed: " \o join(", ", failures)>> ELSE <<>>)

status_parts(successes, failures) ==
    (IF successes # <<>> THEN <<"Posted: " \o join(", ", successes)>> ELSE <<>>)
    \o (IF failures # <<>> THEN <<"Failed: " \o join(", ", failures)>> ELSE <<>>)

status_msg(success) ==
    LET part      == Partition(success)
        successes == sort(part.successes)
        failures  == sort(part.failures)
        sep       == IF failures # <<>> THEN " / " ELSE ""
    IN  join(sep, status_parts(successes, failures))

(***************************************************************************)
(* One invocation of post_to_social is a record of calls:                  *)
(*   text, image  the arguments (image: whether image_data was passed)     *)
(*   by           the task that called it, 0 for handle_photo              *)
(*   p, attempt   the platform being tried and the loop variable of        *)
(*                post_with_retry                                          *)
(*   invoked      the invocations of publishers so far, each [p, out]: the *)
(*                platform and how the invocation ended                    *)
(*   raised       whether the retry-wrapped call of a platform raised      *)
(*   success      twitter_success, farcaster_success, bluesky_success      *)
(*   state        "running", "backoff" (suspended in asyncio.sleep(delay)),*)
(*                "returned", or "aborted" (left by an error)              *)
(*   status       status_msg, once returned                                *)
(*   last_exception   post_with_retry's local: the invocation (its place   *)
(*                in invoked) whose error it holds, 0 for None             *)
(*   got          per platform, the invocation whose result post_with_retry*)
(*                returned or whose error it raised, 0 while it runs       *)
(*   sleeps       the backoff sleeps entered, each [p, attempt]: the       *)
(*                platform and the argument given to exponential_backoff   *)
(*   temp_file    post_to_social's local: the file post_to_twitter wrote   *)
(*                last (named by the invocation that wrote it), 0 for None *)
(*   files        the temporary files that exist                           *)
(***************************************************************************)
NewCall(text, image, by) ==
    [text |-> text, image |-> image, by |-> by, p |-> 1, attempt |-> 0,
     invoked |-> <<>>,
     raised  |-> [i \in 1..NPlatforms |-> FALSE],
     success |-> [i \in 1..NPlatforms |-> FALSE],
     state |-> "running", status |-> "",
     last_exception |-> 0,
     got     |-> [i \in 1..NPlatforms |-> 0],
     sleeps  |-> <<>>,
     temp_file |-> 0, files |-> {}]

\* post_to_twitter, lines 355-359: with an image, every invocation writes a
\* file named after the time of the invocation and makes it temp_file.
post_to_twitter(c) ==
    IF c.p = 1 /\ c.image
    THEN [c EXCEPT !.temp_file = Len(c.invoked), !.files = @ \cup {Len(c.invoked)}]
    ELSE c

\* The finally clause of post_to_social, lines 460-462, and clean_temp_file,
\* lines 230-237: the file temp_file names is removed.
clean_temp_file(c) == [c EXCEPT !.files = @ \ {c.temp_file}]

\* Mutant of retry_pass: last_exception keeps the first failure.
retry_pass_first_exception(c, out) ==
    LET c1 == post_to_twitter([c EXCEPT !.invoked = Append(@, [p |-> c.p, out |-> out])])
        e  == IF c.last_exception = 0 THEN Len(c1.invoked) ELSE c.last_exception
    IN  CASE out = "ok"   -> [c1 EXCEPT !.got[c.p] = Len(c1.invoked)]
          [] out = "rate" -> [c1 EXCEPT !.last_exception = e,
                                        !.sleeps = Append(@, [p |-> c.p, attempt |-> c.attempt]),
                                        !.state = "backoff"]
          [] out = "hard" -> [c1 EXCEPT !.last_exception = e, !.got[c.p] = Len(c1.invoked),
                                        !.raised[c.p] = TRUE]
          [] out = "down" -> [c1 EXCEPT !.last_exception = e, !.got[c.p] = AttributeError,
                                        !.raised[c.p] = TRUE]

\* post_with_retry, lines 251-267: one pass of the loop body for platform c.p
\* whose invocation ends as `out`.  The result has state "backoff" when the
\* pass suspends in asyncio.sleep(delay), and otherwise says in raised[c.p]
\* whether post_with_retry raised.
retry_pass(c, out) ==
    LET c1 == post_to_twitter([c EXCEPT !.invoked = Append(@, [p |-> c.p, out |-> out])])
        e  == Len(c1.invoked)
    IN  CASE out = "ok"   -> [c1 EXCEPT !.got[c.p] = e]
          [] out = "rate" -> [c1 EXCEPT !.last_exception = e,
                                        !.sleeps = Append(@, [p |-> c.p, attempt |-> c.attempt]),
                                        !.state = "backoff"]
          [] out = "hard" -> [c1 EXCEPT !.last_exception = e, !.got[c.p] = e,
                                        !.raised[c.p] = TRUE]
          [] out = "down" -> [c1 EXCEPT !.last_exception = e, !.got[c.p] = AttributeError,
                                        !.raised[c.p] = TRUE]

\* Mutant of next_platform: no except clause around a platform, so that its
\* error ends post_to_social's attempts.
next_platform_abort(c) ==
    IF c.raised[c.p]
    THEN [c EXCEPT !.p = NPlatforms + 1, !.attempt = 0]
    ELSE [c EXCEPT !.success[c.p] = TRUE, !.p = c.p + 1, !.attempt = 0]

\* post_to_social, lines 366-369 (406-408, 420-422) and the except clause
\* after them: the flag of platform c.p is set when post_with_retry returned,
\* the error is swallowed when it raised; go on to the next platform.
next_platform(c) ==
    [c EXCEPT !.success[c.p] = ~c.raised[c.p], !.p = c.p + 1, !.attempt = 0,
              !.last_exception = 0]

\* post_to_social, lines 350-458, from platform c.p on, until the coroutine
\* suspends or returns.  oracle[i] is how the next invocation of platform i
\* ends.
RECURSIVE post_to_social(_, _)
post_to_social(c, oracle) ==
    IF c.p > NPlatforms
    THEN clean_temp_file([c EXCEPT !.state = "returned", !.status = status_msg(c.success)])
    ELSE LET c1 == retry_pass(c, oracle[c.p])
         IN  IF c1.state = "backoff" THEN c1
             ELSE post_to_social(next_platform(c1), oracle)

\* post_with_retry, lines 262-263 and 269-271: the backoff sleep is over.
\* `continue` starts the next pass; when the loop is exhausted the last
\* error is raised.
after_backoff(c, oracle) ==
    LET c1 == [c EXCEPT !.state = "running", !.attempt = c.attempt + 1]
    IN  IF c1.attempt < max_retries
        THEN post_to_social(c1, oracle)
        ELSE post_to_social(next_platform([c1 EXCEPT !.raised[c.p] = TRUE,
                                                     !.got[c.p] = c.last_exception]), oracle)

(***************************************************************************)
(* The debounce manager.                                                   *)
(*                                                                         *)
(* An entry of pending_posts is [text, task, chat_id]: text is the number  *)
(* of the inbound update that carried it (its place in arrivals), so that  *)
(* two messages are never confused; task is the handle of the timer task.  *)
(* No code stores an 'image_data' key, and none is modelled.               *)
(*                                                                         *)
(* A task is [user, pc, cancel, call, text, chat_id]:                      *)
(*   pc      "new" (created, first step not yet run), "sleep" (in          *)
(*           asyncio.sleep(36)), "backoff" (in post_with_retry's sleep),   *)
(*           "send_status", "send_failed" (in send_message), and the final *)
(*           "done", "cancelled", "failed" (left by an error)              *)
(*   cancel  Task.cancel() was called and CancelledError is not yet thrown *)
(*   call    its invocation of post_to_social, 0 if none                   *)
(*   text, chat_id   post_data, read when the sleep is over                *)
(***************************************************************************)
\* The chats an update of user u may come from: the private chat with the bot.
ChatsOf(u) == {"chat_" \o u}

Final     == {"done", "cancelled", "failed"}
Suspended == {"sleep", "backoff", "send_status", "send_failed"}

\* handle_photo in flight: the await it is suspended in, the update's user
\* and chat, its place in arrivals, the local `text`, and its call.
Idle == [pc |-> "idle", user |-> "", chat |-> "", photo |-> 0, text |-> 0, call |-> 0]

NewTask(u) ==
    [user |-> u, pc |-> "new", cancel |-> FALSE, call |-> 0, text |-> 0, chat_id |-> ""]

Texts  == {i \in DOMAIN arrivals : arrivals[i].kind = "text"}
Photos == {i \in DOMAIN arrivals : arrivals[i].kind = "photo"}

LiveTasks(u) == {t \in DOMAIN tasks : tasks[t].user = u /\ tasks[t].pc \notin Final}

\* Where user u stands when an update of u arrives: "idle" (no entry, no
\* timer), "window" (an entry whose timer has not elapsed, and no other
\* timer), or "other".
Phase(u) ==
    IF u \notin DOMAIN pending_posts
    THEN IF LiveTasks(u) = {} THEN "idle" ELSE "other"
    ELSE LET t == pending_posts[u].task
         IN  IF /\ LiveTasks(u) = {t}
                /\ tasks[t].pc \in {"new", "sleep"}
                /\ ~tasks[t].cancel
             THEN "window" ELSE "other"

\* An inbound update.  fetched says, for a photo, whether its bytes were
\* fetched: "no" (not yet), "yes", or "failed" (get_file or download raised).
Arrival(kind, u, ch) ==
    [kind |-> kind, user |-> u, chat |-> ch, phase |-> Phase(u), fetched |-> "no"]

\* Mutant of cancel: the timer is not cancelled.
cancel_ignored(ts, t) == ts

\* Task.cancel(): nothing on a finished task; otherwise CancelledError is
\* thrown into the task at its next step.
cancel(ts, t) == IF ts[t].pc \in Final THEN ts ELSE [ts EXCEPT ![t].cancel = TRUE]

\* Mutant of del_entry: the finally clause does not delete.
del_entry_skipped(pp, u) == pp

\* if user_id in pending_posts: del pending_posts[user_id]
del_entry(pp, u) == [x \in DOMAIN pp \ {u} |-> pp[x]]

\* A step the event loop has already queued: the first step of a new task,
\* or the delivery of a cancellation.  The loop runs these before it looks at
\* timers and sockets again.
Ready(t) == tasks[t].pc = "new" \/ (tasks[t].cancel /\ tasks[t].pc \in Suspended)
NoReady  == \A t \in DOMAIN tasks : ~Ready(t)

\* A call of send_message or reply_text: the chat, the message, the text it
\* answers (0: none), the task that made it (0: handle_photo), and whether it
\* went through.
Reply(ch, msg, text, by, ok) ==
    [chat |-> ch, msg |-> msg, text |-> text, by |-> by, ok |-> ok]
Sent(r) == replies (+) SetToBag({r})

\* How many invocations raised between the call record c and its later c2.
Faults(c, c2) ==
    Cardinality({i \in (Len(c.invoked) + 1)..Len(c2.invoked) : c2.invoked[i].out # "ok"})

Spend(what, n) == [budget EXCEPT ![what] = @ - n]
Drop(ok) == IF ok THEN budget ELSE Spend("drops", 1)
MayDrop(ok) == ok \/ budget.drops > 0

\* BlueskyClient.__init__, line 94: self.session = None.
NoSession == [session |-> FALSE]

\* No function is evaluated on its own.
NoEval == [fn |-> "none"]

Init ==
    /\ pending_posts = <<>>
    /\ tasks = <<>>
    /\ handler = Idle
    /\ calls = <<>>
    /\ replies = EmptyBag
    /\ arrivals = <<>>
    /\ bluesky_client = NoSession
    /\ requests = <<>>
    /\ eval = NoEval
    /\ budget = [users |-> {"u1"}, texts |-> MaxTexts, photos |-> MaxPhotos,
                 faults |-> MaxFaults, drops |-> MaxDrops]

(***************************************************************************)
(* handle_message, lines 492-518.  It never awaits: one step.              *)
(***************************************************************************)
handle_message(u, ch) ==
    /\ handler.pc = "idle"
    /\ budget.texts > 0
    /\ budget' = Spend("texts", 1)
    /\ LET text == Len(arrivals) + 1
           task == Len(tasks) + 1
           ts   == IF u \in DOMAIN pending_posts /\ pending_posts[u].task # 0
                   THEN cancel(tasks, pending_posts[u].task)
                   ELSE tasks
       IN  /\ tasks' = Append(ts, NewTask(u))
           /\ pending_posts' =
                  [x \in DOMAIN pending_posts \cup {u} |->
                      IF x = u THEN [text |-> text, task |-> task, chat_id |-> ch]
                      ELSE pending_posts[x]]
    /\ arrivals' = Append(arrivals, Arrival("text", u, ch))
    /\ UNCHANGED <<handler, calls, replies, bluesky_client, requests, eval>>

(***************************************************************************)
(* wait_and_post, lines 464-490.                                           *)
(***************************************************************************)
\* The first step of the task: it runs up to asyncio.sleep(36).  A task
\* cancelled before its first step never enters the function body.
wait_and_post_start(t) ==
    /\ tasks[t].pc = "new"
    /\ tasks' = [tasks EXCEPT ![t].pc = IF tasks[t].cancel THEN "cancelled" ELSE "sleep",
                              ![t].cancel = FALSE]
    /\ UNCHANGED <<pending_posts, handler, calls, replies, arrivals, budget, bluesky_client, requests, eval>>

\* CancelledError is thrown at the await the task is suspended in.  It is no
\* Exception: no except clause catches it and only the finally clauses run.
\* A send_message interrupted in flight may or may not have been delivered.
wait_and_post_cancelled(t) ==
    /\ tasks[t].cancel
    /\ tasks[t].pc \in Suspended
    /\ tasks' = [tasks EXCEPT ![t].pc = "cancelled", ![t].cancel = FALSE]
    /\ calls' = IF tasks[t].pc = "backoff"
                THEN [calls EXCEPT ![tasks[t].call] = clean_temp_file([@ EXCEPT !.state = "aborted"])]
                ELSE calls
    /\ pending_posts' = del_entry(pending_posts, tasks[t].user)
    /\ \E delivered \in BOOLEAN :
           replies' =
               IF tasks[t].pc = "send_status"
               THEN Sent(Reply(tasks[t].chat_id, calls[tasks[t].call].status,
                               tasks[t].text, t, delivered))
               ELSE IF tasks[t].pc = "send_failed"
               THEN Sent(Reply(tasks[t].chat_id, FailedMsg, tasks[t].text, t, delivered))
               ELSE replies
    /\ UNCHANGED <<handler, arrivals, budget, bluesky_client, requests, eval>>

\* Where the task is after a stretch of post_to_social: suspended in the
\* backoff sleep, or, the call returned, in send_message (lines 473-478).
task_after_call(tk, c) ==
    [tk EXCEPT !.pc = IF c.state = "backoff" THEN "backoff" ELSE "send_status"]

\* asyncio.sleep(36) is over, lines 468-478.  All windows have the same
\* length, so they elapse in the order the tasks were created.
wait_and_post_wake(t, oracle) ==
    /\ tasks[t].pc = "sleep"
    /\ NoReady
    /\ \A t2 \in 1..(t - 1) : tasks[t2].pc # "sleep"
    /\ LET u == tasks[t].user IN
       IF u \in DOMAIN pending_posts
       THEN LET post_data == pending_posts[u]
                c == post_to_social(NewCall(post_data.text, FALSE, t), oracle)
                tk == [tasks[t] EXCEPT !.call = Len(calls) + 1,
                                       !.text = post_data.text,
                                       !.chat_id = post_data.chat_id]
                used == Faults(NewCall(post_data.text, FALSE, t), c)
            IN  /\ used <= budget.faults
                /\ budget' = Spend("faults", used)
                /\ calls' = Append(calls, c)
                /\ tasks' = [tasks EXCEPT ![t] = task_after_call(tk, c)]
                /\ UNCHANGED pending_posts
       ELSE /\ tasks' = [tasks EXCEPT ![t].pc = "done"]
            /\ UNCHANGED <<pending_posts, calls, budget>>
    /\ UNCHANGED <<handler, replies, arrivals, bluesky_client, requests, eval>>

\* The backoff sleep inside the task's post_to_social is over.
wait_and_post_backoff(t, oracle) ==
    /\ tasks[t].pc = "backoff"
    /\ NoReady
    /\ LET c == after_backoff(calls[tasks[t].call], oracle)
           used == Faults(calls[tasks[t].call], c)
       IN  /\ used <= budget.faults
           /\ budget' = Spend("faults", used)
           /\ calls' = [calls EXCEPT ![tasks[t].call] = c]
           /\ tasks' = [tasks EXCEPT ![t] = task_after_call(tasks[t], c)]
    /\ UNCHANGED <<pending_posts, handler, replies, arrivals, bluesky_client, requests, eval>>

\* send_message(status_msg) ends, lines 475-490: sent, then the finally
\* clause; or it raised, and the except clause takes the chat id of the
\* entry pending_posts holds now.
wait_and_post_sent(t, ok) ==
    /\ tasks[t].pc = "send_status"
    /\ NoReady
    /\ MayDrop(ok)
    /\ budget' = Drop(ok)
    /\ replies' = Sent(Reply(tasks[t].chat_id, calls[tasks[t].call].status,
                             tasks[t].text, t, ok))
    /\ LET u == tasks[t].user IN
       IF ok
       THEN /\ tasks' = [tasks EXCEPT ![t].pc = "done"]
            /\ pending_posts' = del_entry(pending_posts, u)
       ELSE IF u \in DOMAIN pending_posts
       THEN /\ tasks' = [tasks EXCEPT ![t].pc = "send_failed",
                                      ![t].chat_id = pending_posts[u].chat_id]
            /\ UNCHANGED pending_posts
       ELSE /\ tasks' = [tasks EXCEPT ![t].pc = "done"]
            /\ UNCHANGED pending_posts
    /\ UNCHANGED <<handler, calls, arrivals, bluesky_client, requests, eval>>

\* send_message("Failed posting ...") of the except clause ends, lines
\* 484-490; when it raises too, the error leaves the task.
wait_and_post_failed_sent(t, ok) ==
    /\ tasks[t].pc = "send_failed"
    /\ NoReady
    /\ MayDrop(ok)
    /\ budget' = Drop(ok)
    /\ replies' = Sent(Reply(tasks[t].chat_id, FailedMsg, tasks[t].text, t, ok))
    /\ tasks' = [tasks EXCEPT ![t].pc = IF ok THEN "done" ELSE "failed"]
    /\ pending_posts' = del_entry(pending_posts, tasks[t].user)
    /\ UNCHANGED <<handler, calls, arrivals, bluesky_client, requests, eval>>

(***************************************************************************)
(* handle_photo, lines 520-555.  handler.pc is the await it is suspended   *)
(* in: "prompt", "get_file", "download", "backoff", "reply_status",        *)
(* "reply_failed".                                                         *)
(***************************************************************************)
handle_photo(u, ch) ==
    /\ handler.pc = "idle"
    /\ budget.photos > 0
    /\ budget' = Spend("photos", 1)
    /\ arrivals' = Append(arrivals, Arrival("photo", u, ch))
    /\ IF u \notin DOMAIN pending_posts
       THEN /\ handler' = [Idle EXCEPT !.pc = "prompt", !.user = u, !.chat = ch,
                                       !.photo = Len(arrivals) + 1]
            /\ UNCHANGED tasks
       ELSE /\ handler' = [Idle EXCEPT !.pc = "get_file", !.user = u, !.chat = ch,
                                       !.photo = Len(arrivals) + 1,
                                       !.text = pending_posts[u].text]
            /\ tasks' = IF pending_posts[u].task # 0
                        THEN cancel(tasks, pending_posts[u].task)
                        ELSE tasks
    /\ UNCHANGED <<pending_posts, calls, replies, bluesky_client, requests, eval>>

\* reply_text("Please send text first.") ends, lines 525-526.
handle_photo_prompted(ok) ==
    /\ handler.pc = "prompt"
    /\ NoReady
    /\ MayDrop(ok)
    /\ budget' = Drop(ok)
    /\ replies' = Sent(Reply(handler.chat, PromptMsg, 0, 0, ok))
    /\ handler' = Idle
    /\ UNCHANGED <<pending_posts, tasks, calls, arrivals, bluesky_client, requests, eval>>

\* get_file ends, line 539.
handle_photo_get_file(ok) ==
    /\ handler.pc = "get_file"
    /\ NoReady
    /\ MayDrop(ok)
    /\ budget' = Drop(ok)
    /\ handler' = [handler EXCEPT !.pc = IF ok THEN "download" ELSE "reply_failed"]
    /\ arrivals' = IF ok THEN arrivals
                   ELSE [arrivals EXCEPT ![handler.photo].fetched = "failed"]
    /\ UNCHANGED <<pending_posts, tasks, calls, replies, bluesky_client, requests, eval>>

handler_after_call(h, c) ==
    [h EXCEPT !.pc = IF c.state = "backoff" THEN "backoff" ELSE "reply_status"]

\* download_to_memory ends, lines 544-548: post_to_social(text, image_data).
handle_photo_download(ok, oracle) ==
    /\ handler.pc = "download"
    /\ NoReady
    /\ MayDrop(ok)
    /\ IF ok
       THEN LET c == post_to_social(NewCall(handler.text, TRUE, 0), oracle)
                used == Faults(NewCall(handler.text, TRUE, 0), c)
            IN  /\ used <= budget.faults
                /\ budget' = Spend("faults", used)
                /\ calls' = Append(calls, c)
                /\ handler' = handler_after_call([handler EXCEPT !.call = Len(calls) + 1], c)
       ELSE /\ handler' = [handler EXCEPT !.pc = "reply_failed"]
            /\ budget' = Spend("drops", 1)
            /\ UNCHANGED calls
    /\ arrivals' = [arrivals EXCEPT ![handler.photo].fetched = IF ok THEN "yes" ELSE "failed"]
    /\ UNCHANGED <<pending_posts, tasks, replies, bluesky_client, requests, eval>>

\* The backoff sleep inside the handler's post_to_social is over.
handle_photo_backoff(oracle) ==
    /\ handler.pc = "backoff"
    /\ NoReady
    /\ LET c == after_backoff(calls[handler.call], oracle)
           used == Faults(calls[handler.call], c)
       IN  /\ used <= budget.faults
           /\ budget' = Spend("faults", used)
           /\ calls' = [calls EXCEPT ![handler.call] = c]
           /\ handler' = handler_after_call(handler, c)
    /\ UNCHANGED <<pending_posts, tasks, replies, arrivals, bluesky_client, requests, eval>>

\* reply_text(status_msg) ends, lines 548-555.
handle_photo_replied(ok) ==
    /\ handler.pc = "reply_status"
    /\ NoReady
    /\ MayDrop(ok)
    /\ budget' = Drop(ok)
    /\ replies' = Sent(Reply(handler.chat, calls[handler.call].status, handler.text, 0, ok))
    /\ IF ok
       THEN /\ handler' = Idle
            /\ pending_posts' = del_entry(pending_posts, handler.user)
       ELSE /\ handler' = [handler EXCEPT !.pc = "reply_failed"]
            /\ UNCHANGED pending_posts
    /\ UNCHANGED <<tasks, calls, arrivals, bluesky_client, requests, eval>>

\* reply_text("Failed posting ...") of the except clause ends, lines 552-555.
handle_photo_failed_replied(ok) ==
    /\ handler.pc = "reply_failed"
    /\ NoReady
    /\ MayDrop(ok)
    /\ budget' = Drop(ok)
    /\ replies' = Sent(Reply(handler.chat, FailedMsg, handler.text, 0, ok))
    /\ handler' = Idle
    /\ pending_posts' = del_entry(pending_posts, handler.user)
    /\ UNCHANGED <<tasks, calls, arrivals, bluesky_client, requests, eval>>

Next ==
    \/ \E u \in budget.users : \E ch \in ChatsOf(u) : handle_message(u, ch)
    \/ \E u \in budget.users : \E ch \in ChatsOf(u) : handle_photo(u, ch)
    \/ \E t \in DOMAIN tasks : wait_and_post_start(t)
    \/ \E t \in DOMAIN tasks : wait_and_post_cancelled(t)
    \/ \E t \in DOMAIN tasks, oracle \in Oracles : wait_and_post_wake(t, oracle)
    \/ \E t \in DOMAIN tasks, oracle \in Oracles : wait_and_post_backoff(t, oracle)
    \/ \E t \in DOMAIN tasks, ok \in BOOLEAN : wait_and_post_sent(t, ok)
    \/ \E t \in DOMAIN tasks, ok \in BOOLEAN : wait_and_post_failed_sent(t, ok)
    \/ \E ok \in BOOLEAN : handle_photo_prompted(ok)
    \/ \E ok \in BOOLEAN : handle_photo_get_file(ok)
    \/ \E ok \in BOOLEAN, oracle \in Oracles : handle_photo_download(ok, oracle)
    \/ \E oracle \in Oracles : handle_photo_backoff(oracle)
    \/ \E ok \in BOOLEAN : handle_photo_replied(ok)
    \/ \E ok \in BOOLEAN : handle_photo_failed_replied(ok)

Spec == Init /\ [][Next]_vars

(***************************************************************************)
(* The same program with two users, and a smaller budget for each.         *)
(***************************************************************************)
UsersTexts  == 2
UsersPhotos == 1
UsersFaults == 1
UsersDrops  == 1

InitUsers ==
    /\ pending_posts = <<>>
    /\ tasks = <<>>
    /\ handler = Idle
    /\ calls = <<>>
    /\ replies = EmptyBag
    /\ arrivals = <<>>
    /\ bluesky_client = NoSession
    /\ requests = <<>>
    /\ eval = NoEval
    /\ budget = [users |-> Users, texts |-> UsersTexts, photos |-> UsersPhotos,
                 faults |-> UsersFaults, drops |-> UsersDrops]

SpecUsers == InitUsers /\ [][Next]_vars

(***************************************************************************)
(* The same program with one text and no photo, and every publisher free   *)
(* to fail on every attempt: one invocation of post_to_social, in full.    *)
(***************************************************************************)
FanoutTexts  == 1
FanoutFaults == 9
FanoutDrops  == 1

InitFanout ==
    /\ pending_posts = <<>>
    /\ tasks = <<>>
    /\ handler = Idle
    /\ calls = <<>>
    /\ replies = EmptyBag
    /\ arrivals = <<>>
    /\ bluesky_client = NoSession
    /\ requests = <<>>
    /\ eval = NoEval
    /\ budget = [users |-> {"u1"}, texts |-> FanoutTexts, photos |-> 0,
                 faults |-> FanoutFaults, drops |-> FanoutDrops]

NextFanout ==
    \/ \E u \in budget.users : \E ch \in ChatsOf(u) : handle_message(u, ch)
    \/ \E t \in DOMAIN tasks : wait_and_post_start(t)
    \/ \E t \in DOMAIN tasks, oracle \in Oracles : wait_and_post_wake(t, oracle)
    \/ \E t \in DOMAIN tasks, oracle \in Oracles : wait_and_post_backoff(t, oracle)
    \/ \E t \in DOMAIN tasks, ok \in BOOLEAN : wait_and_post_sent(t, ok)
    \/ \E t \in DOMAIN tasks, ok \in BOOLEAN : wait_and_post_failed_sent(t, ok)

SpecFanout == InitFanout /\ [][NextFanout]_vars

(***************************************************************************)
(* exponential_backoff, lines 239-245, evaluated on its own, next to runs  *)
(* of post_with_retry that call it.                                        *)
(*                                                                         *)
(* Delays are whole numbers of 1/Unit second.  random.uniform(a, b) is     *)
(* a + (b - a) * r with r one of 0, 1/Grain, .., 1: every value between a  *)
(* and b that the grain can tell apart, the end points included.           *)
(***************************************************************************)
Grain         == 10   \* values of the random number
MaxAttempt    == 7    \* arguments of exponential_backoff: 0..MaxAttempt
BackoffFaults == 3    \* publisher invocations that raise

Unit == 10 * Grain

max_delay == 32

RECURSIVE Pow2(_)
Pow2(n) == IF n = 0 THEN 1 ELSE 2 * Pow2(n - 1)

min(a, b) == IF a <= b THEN a ELSE b

uniform(a, b, r) == a + ((b - a) * r) \div Grain

\* Mutant of exponential_backoff: the delay is not capped.
exponential_backoff_uncapped(attempt, r) ==
    LET delay  == Pow2(attempt) * Unit
        jitter == uniform(0, delay \div 10, r)
    IN  [delay |-> delay, jitter |-> jitter, final_delay |-> delay + jitter]

exponential_backoff(attempt, r) ==
    LET delay  == min(max_delay, Pow2(attempt)) * Unit
        jitter == uniform(0, delay \div 10, r)
    IN  [delay |-> delay, jitter |-> jitter, final_delay |-> delay + jitter]

InitBackoff ==
    /\ pending_posts = <<>>
    /\ tasks = <<>>
    /\ handler = Idle
    /\ calls = <<>>
    /\ replies = EmptyBag
    /\ arrivals = <<>>
    /\ bluesky_client = NoSession
    /\ requests = <<>>
    /\ budget = [users |-> {"u1"}, texts |-> 1, photos |-> 0,
                 faults |-> BackoffFaults, drops |-> 0]
    /\ \E attempt \in 0..MaxAttempt, r \in 0..Grain :
           eval = [fn |-> "exponential_backoff", attempt |-> attempt, random |-> r,
                   done |-> FALSE, out |-> [delay |-> 0, jitter |-> 0, final_delay |-> 0]]

exponential_backoff_call ==
    /\ eval.fn = "exponential_backoff"
    /\ ~eval.done
    /\ eval' = [eval EXCEPT !.done = TRUE,
                            !.out = exponential_backoff(eval.attempt, eval.random)]
    /\ UNCHANGED <<pending_posts, tasks, handler, calls, replies, arrivals, budget,
                   bluesky_client, requests>>

NextBackoff ==
    \/ exponential_backoff_call
    \/ \E u \in budget.users : \E ch \in ChatsOf(u) : handle_message(u, ch)
    \/ \E t \in DOMAIN tasks : wait_and_post_start(t)
    \/ \E t \in DOMAIN tasks, oracle \in Oracles : wait_and_post_wake(t, oracle)
    \/ \E t \in DOMAIN tasks, oracle \in Oracles : wait_and_post_backoff(t, oracle)

SpecBackoff == InitBackoff /\ [][NextBackoff]_vars

(***************************************************************************)
(* Text.  A Python str is the sequence of its characters, each character a *)
(* one-letter string; "EUR" stands for the euro sign, a character of three *)
(* UTF-8 bytes.                                                            *)
(***************************************************************************)
Whitespace == {" ", "\n", "\r", "\f"}
LineBreaks == {"\n", "\r", "\f"}

isspace(ch) == ch \in Whitespace

\* len(ch.encode('utf-8'))
utf8(ch) == IF ch = "EUR" THEN 3 ELSE 1

\* len(str.encode('utf-8')): one byte for every character, and the further
\* bytes of the characters that have more.
encoded_len(str) ==
    Len(str) + (utf8("EUR") - 1) * Cardinality({i \in 1..Len(str) : utf8(str[i]) > 1})

\* Whether old occurs in str at place i.
OccursAt(str, old, i) ==
    /\ i + Len(old) - 1 <= Len(str)
    /\ SubSeq(str, i, i + Len(old) - 1) = old

\* str[i:], from place i on.
From(str, i) == SubSeq(str, i, Len(str))

\* The last place of the run of non-space characters that holds place i.
RunEnd(str, i) ==
    LET stops == {j \in i..Len(str) : isspace(str[j])}
    IN  IF stops = {} THEN Len(str)
        ELSE (CHOOSE j \in stops : \A k \in stops : j <= k) - 1

\* url_pattern, line 275: https?://\S+|www\.\S+ .  A match begins at place i
\* when one of the three prefixes stands there with a non-space character
\* after it; \S+ is greedy, so the match ends where the run ends.
UrlPrefixes ==
    { <<"h", "t", "t", "p", ":", "/", "/">>,
      <<"h", "t", "t", "p", "s", ":", "/", "/">>,
      <<"w", "w", "w", ".">> }

MatchesAt(str, i) ==
    \E pre \in UrlPrefixes :
        /\ OccursAt(str, pre, i)
        /\ i + Len(pre) <= Len(str)
        /\ ~isspace(str[i + Len(pre)])

\* re.findall(url_pattern, text): the matches in order, none overlapping.
RECURSIVE findall(_, _)
findall(str, pos) ==
    LET starts == {i \in pos..Len(str) : MatchesAt(str, i)}
    IN  IF starts = {} THEN <<>>
        ELSE LET i == CHOOSE i \in starts : \A k \in starts : i <= k
                 e == RunEnd(str, i)
             IN  <<SubSeq(str, i, e)>> \o findall(str, e + 1)

\* str.replace(old, new), from place pos on: every occurrence, left to
\* right, none overlapping.
RECURSIVE replace(_, _, _, _)
replace(str, old, new, pos) ==
    LET found == {i \in pos..Len(str) : OccursAt(str, old, i)}
    IN  IF found = {} THEN From(str, pos)
        ELSE LET i == CHOOSE i \in found : \A k \in found : i <= k
             IN  SubSeq(str, pos, i - 1) \o new \o replace(str, old, new, i + Len(old))

\* str.strip(), str.rstrip()
rstrip(str) ==
    LET keep == {i \in 1..Len(str) : ~isspace(str[i])}
    IN  IF keep = {} THEN <<>>
        ELSE SubSeq(str, 1, CHOOSE i \in keep : \A k \in keep : k <= i)

strip(str) ==
    LET keep == {i \in 1..Len(str) : ~isspace(str[i])}
    IN  IF keep = {} THEN <<>>
        ELSE SubSeq(str, CHOOSE i \in keep : \A k \in keep : i <= k,
                         CHOOSE i \in keep : \A k \in keep : k <= i)

\* str.splitlines(): the lines without their line breaks; "\r\n" is one
\* line break, and a line break at the very end opens no further line.
RECURSIVE splitlines(_)
splitlines(str) ==
    LET breaks == {i \in 1..Len(str) : str[i] \in LineBreaks}
    IN  IF str = <<>> THEN <<>>
        ELSE IF breaks = {} THEN <<str>>
        ELSE LET i == CHOOSE i \in breaks : \A k \in breaks : i <= k
                 n == IF str[i] = "\r" /\ i < Len(str) /\ str[i + 1] = "\n" THEN 2 ELSE 1
             IN  <<SubSeq(str, 1, i - 1)>> \o splitlines(From(str, i + n))

\* '\n'.join(line.rstrip() for line in lines)
RECURSIVE join_rstripped(_)
join_rstripped(lines) ==
    IF lines = <<>> THEN <<>>
    ELSE IF Len(lines) = 1 THEN rstrip(lines[1])
    ELSE rstrip(lines[1]) \o <<"\n">> \o join_rstripped(Tail(lines))

\* The last place of the run of whitespace that begins at place i; i - 1
\* when none begins there.
WhiteEnd(str, i) ==
    LET stops == {j \in i..Len(str) : ~isspace(str[j])}
    IN  IF stops = {} THEN Len(str)
        ELSE (CHOOSE j \in stops : \A k \in stops : j <= k) - 1

\* re.sub(r'\n\s*\n', '\n\n', str), from place pos on.  \s* is greedy and
\* gives back: the match ends at the last "\n" of the whitespace run.
RECURSIVE sub_blank_lines(_, _)
sub_blank_lines(str, pos) ==
    LET ends(i)  == {j \in (i + 1)..WhiteEnd(str, i + 1) : str[j] = "\n"}
        starts   == {i \in pos..Len(str) : str[i] = "\n" /\ ends(i) # {}}
    IN  IF starts = {} THEN From(str, pos)
        ELSE LET i == CHOOSE i \in starts : \A k \in starts : i <= k
                 j == CHOOSE j \in ends(i) : \A k \in ends(i) : k <= j
             IN  SubSeq(str, pos, i - 1) \o <<"\n", "\n">> \o sub_blank_lines(str, j + 1)

\* re.sub(r'\s+', ' ', str), from place pos on.
RECURSIVE sub_whitespace(_, _)
sub_whitespace(str, pos) ==
    LET starts == {i \in pos..Len(str) : isspace(str[i])}
    IN  IF starts = {} THEN From(str, pos)
        ELSE LET i == CHOOSE i \in starts : \A k \in starts : i <= k
             IN  SubSeq(str, pos, i - 1) \o <<" ">> \o sub_whitespace(str, WhiteEnd(str, i) + 1)

(***************************************************************************)
(* extract_and_clean_text, lines 273-298.                                  *)
(***************************************************************************)
max_url_bytes == 256
max_urls      == 2

\* Lines 284-286: for url in urls: cleaned_text.replace(url, '').strip()
RECURSIVE remove_urls(_, _)
remove_urls(cleaned_text, urls) ==
    IF urls = <<>> THEN cleaned_text
    ELSE remove_urls(strip(replace(cleaned_text, Head(urls), <<>>, 1)), Tail(urls))

extract_and_clean_text(text, for_farcaster) ==
    LET urls  == findall(text, 1)
        short == SelectSeq(urls, LAMBDA url : encoded_len(url) <= max_url_bytes)
        valid_urls == SubSeq(short, 1, min(max_urls, Len(short)))
        removed == remove_urls(text, urls)
        cleaned_text ==
            IF for_farcaster
            THEN LET unix == replace(replace(removed, <<"\r", "\n">>, <<"\n">>, 1),
                                     <<"\r">>, <<"\n">>, 1)
                 IN  join_rstripped(splitlines(sub_blank_lines(unix, 1)))
            ELSE sub_whitespace(removed, 1)
    IN  [cleaned_text |-> strip(cleaned_text), valid_urls |-> valid_urls]

(***************************************************************************)
(* extract_and_clean_text evaluated on its own: once on a text, and once   *)
(* more on the cleaned text it returned.  The texts are built from pieces: *)
(* long ones of few kinds of pieces, short ones of every kind, lines of    *)
(* letters and blanks, and a few with a run of 252 letters, around the     *)
(* limit of 256 bytes.                                                     *)
(***************************************************************************)
MaxPieces == 7   \* pieces of a text made of "www.", a letter and a blank
MaxMixed  == 3   \* pieces of a text made of every kind of piece
MaxLines  == 5   \* pieces of a text made of letters, blanks and line breaks
MaxLong   == 3   \* pieces of a text with long runs

PlainPieces == {"www.", "a", " "}
MixedPieces == {"www.", "http://", "https://", "a", ".", " ", "\n", "\r", "\f"}
LinePieces  == {"a", " ", "\n", "\f"}
LongPieces  == {"www.", "a*252", "a", "EUR", " "}

Chars(piece) ==
    CASE piece = "www."     -> <<"w", "w", "w", ".">>
      [] piece = "http://"  -> <<"h", "t", "t", "p", ":", "/", "/">>
      [] piece = "https://" -> <<"h", "t", "t", "p", "s", ":", "/", "/">>
      [] piece = "a*252"    -> [i \in 1..252 |-> "a"]
      [] OTHER              -> <<piece>>

RECURSIVE Concat(_)
Concat(pieces) == IF pieces = <<>> THEN <<>> ELSE Chars(Head(pieces)) \o Concat(Tail(pieces))

TextsOf(pieces, n) == {Concat(ps) : ps \in UNION {[1..k -> pieces] : k \in 0..n}}

InputTexts ==
    TextsOf(PlainPieces, MaxPieces) \cup TextsOf(MixedPieces, MaxMixed)
        \cup TextsOf(LinePieces, MaxLines) \cup TextsOf(LongPieces, MaxLong)

NoResult == [cleaned_text |-> <<>>, valid_urls |-> <<>>]

InitClean ==
    /\ pending_posts = <<>>
    /\ tasks = <<>>
    /\ handler = Idle
    /\ calls = <<>>
    /\ replies = EmptyBag
    /\ arrivals = <<>>
    /\ bluesky_client = NoSession
    /\ requests = <<>>
    /\ budget = [users |-> {}, texts |-> 0, photos |-> 0, faults |-> 0, drops |-> 0]
    /\ \E text \in InputTexts, for_farcaster \in BOOLEAN :
           eval = [fn |-> "extract_and_clean_text", text |-> text,
                   for_farcaster |-> for_farcaster, passes |-> 0,
                   first |-> NoResult, second |-> NoResult]

\* extract_and_clean_text(text, for_farcaster)
extract_and_clean_text_call ==
    /\ eval.fn = "extract_and_clean_text"
    /\ eval.passes = 0
    /\ eval' = [eval EXCEPT !.passes = 1,
                            !.first = extract_and_clean_text(eval.text, eval.for_farcaster)]
    /\ UNCHANGED <<pending_posts, tasks, handler, calls, replies, arrivals, budget,
                   bluesky_client, requests>>

\* extract_and_clean_text(cleaned_text, for_farcaster), on the text the first
\* call returned.
extract_and_clean_text_again ==
    /\ eval.fn = "extract_and_clean_text"
    /\ eval.passes = 1
    /\ eval' = [eval EXCEPT !.passes = 2,
                            !.second = extract_and_clean_text(eval.first.cleaned_text,
                                                              eval.for_farcaster)]
    /\ UNCHANGED <<pending_posts, tasks, handler, calls, replies, arrivals, budget,
                   bluesky_client, requests>>

NextClean ==
    \/ extract_and_clean_text_call
    \/ extract_and_clean_text_again

SpecClean == InitClean /\ [][NextClean]_vars

(***************************************************************************)
(* The publishers of Farcaster and Bluesky, request by request.            *)
(*                                                                         *)
(* An entry of requests is one HTTP request: call and attempt say which    *)
(* invocation of post_to_social and which invocation of the publisher made *)
(* it, to is the endpoint, json the body where the model needs it, out how *)
(* it ended.  An invocation of a publisher makes its requests in order and *)
(* stops at the first that fails; fail says which one does, if any, and    *)
(* how.                                                                    *)
(***************************************************************************)
Endpoints    == {"imgur", "casts", "createSession", "uploadBlob", "createRecord"}
NoFailure    == [at |-> "none", out |-> "ok"]
Failures(endpoints) == {NoFailure} \cup [at : endpoints, out : Outcomes \ {"ok"}]

Request(i, attempt, to, json, out) ==
    [call |-> i, attempt |-> attempt, to |-> to, json |-> json, out |-> out]

OutcomeAt(to, fail) == IF fail.at = to THEN fail.out ELSE "ok"

\* The link upload_to_imgur returns, lines 300-331.
ImgurLink == <<"h", "t", "t", "p", "s", ":", "/", "/", "i">>

\* Mutant of farcaster_payload: the newline is appended to the text of the
\* enclosing function, and so once more at every retry.
farcaster_payload_text_kept(farcaster_text, urls, image, attempt) ==
    LET text == IF image THEN farcaster_text \o [k \in 1..attempt |-> "\n"] ELSE farcaster_text
        embeds == (IF image THEN <<ImgurLink>> ELSE <<>>)
                      \o SubSeq(urls, 1, min(IF image THEN 1 ELSE 2, Len(urls)))
    IN  IF embeds # <<>> THEN [text |-> text, embeds |-> embeds] ELSE [text |-> text]

\* post_to_farcaster, lines 378-393: the payload of the invocation number
\* attempt.  It is built anew from farcaster_text at every invocation.
farcaster_payload(farcaster_text, urls, image, attempt) ==
    LET embeds0 == IF image THEN <<ImgurLink>> ELSE <<>>
        text    == IF image THEN farcaster_text \o <<"\n">> ELSE farcaster_text
        remaining_slots == 2 - Len(embeds0)
        embeds  == IF remaining_slots > 0 /\ urls # <<>>
                   THEN embeds0 \o SubSeq(urls, 1, min(remaining_slots, Len(urls)))
                   ELSE embeds0
    IN  IF embeds # <<>> THEN [text |-> text, embeds |-> embeds] ELSE [text |-> text]

\* post_to_farcaster, lines 375-404.
post_to_farcaster(farcaster_text, urls, image, i, attempt, fail) ==
    LET imgur == IF image
                 THEN <<Request(i, attempt, "imgur", <<>>, OutcomeAt("imgur", fail))>>
                 ELSE <<>>
        casts == Request(i, attempt, "casts",
                         farcaster_payload(farcaster_text, urls, image, attempt),
                         OutcomeAt("casts", fail))
    IN  IF image /\ OutcomeAt("imgur", fail) # "ok"
        THEN [out |-> OutcomeAt("imgur", fail), requests |-> imgur]
        ELSE [out |-> casts.out, requests |-> Append(imgur, casts)]

(***************************************************************************)
(* BlueskyClient, lines 90-225.  b is the client on its way through one    *)
(* invocation of create_post: [client, requests, out], the object, the     *)
(* requests made so far, and "ok" or how the invocation has failed.        *)
(***************************************************************************)
max_image_bytes == 1000000

\* Mutant of create_session: the session is held whatever the request returns.
create_session_always_held(b, i, attempt, fail) ==
    [client   |-> [b.client EXCEPT !.session = TRUE],
     requests |-> Append(b.requests, Request(i, attempt, "createSession", <<>>,
                                             OutcomeAt("createSession", fail))),
     out      |-> OutcomeAt("createSession", fail)]

\* create_session, lines 96-114: self.session is set when the request
\* succeeded; status 401 and every other failure raise.
create_session(b, i, attempt, fail) ==
    LET out == OutcomeAt("createSession", fail)
    IN  [client   |-> IF out = "ok" THEN [b.client EXCEPT !.session = TRUE] ELSE b.client,
         requests |-> Append(b.requests, Request(i, attempt, "createSession", <<>>, out)),
         out      |-> out]

\* Mutant of upload_image: an image of exactly the limit is rejected too.
upload_image_limit_excluded(b, image_len, i, attempt, fail) ==
    LET b1 == IF ~b.client.session THEN create_session(b, i, attempt, fail) ELSE b
    IN  IF b1.out # "ok" THEN b1
        ELSE IF image_len >= max_image_bytes THEN [b1 EXCEPT !.out = "hard"]
        ELSE [b1 EXCEPT !.requests = Append(@, Request(i, attempt, "uploadBlob", image_len,
                                                       OutcomeAt("uploadBlob", fail))),
                        !.out = OutcomeAt("uploadBlob", fail)]

\* upload_image, lines 116-141.  The error of the size check has no
\* response attribute.
upload_image(b, image_len, i, attempt, fail) ==
    LET b1 == IF ~b.client.session THEN create_session(b, i, attempt, fail) ELSE b
    IN  IF b1.out # "ok" THEN b1
        ELSE IF image_len > max_image_bytes THEN [b1 EXCEPT !.out = "hard"]
        ELSE [b1 EXCEPT !.requests = Append(@, Request(i, attempt, "uploadBlob", image_len,
                                                       OutcomeAt("uploadBlob", fail))),
                        !.out = OutcomeAt("uploadBlob", fail)]

\* create_post, lines 177-225.
create_post(client, image, image_len, i, attempt, fail) ==
    LET b0 == [client |-> client, requests |-> <<>>, out |-> "ok"]
        b1 == IF ~client.session THEN create_session(b0, i, attempt, fail) ELSE b0
        b2 == IF b1.out = "ok" /\ image THEN upload_image(b1, image_len, i, attempt, fail) ELSE b1
    IN  IF b2.out # "ok" THEN b2
        ELSE [b2 EXCEPT !.requests = Append(@, Request(i, attempt, "createRecord", <<>>,
                                                       OutcomeAt("createRecord", fail))),
                        !.out = OutcomeAt("createRecord", fail)]

(***************************************************************************)
(* post_to_social called on its own, its publishers request by request.    *)
(* eval holds what the running call works on: the length of image_data,    *)
(* and farcaster_text and urls of line 347.                                *)
(***************************************************************************)
Invocations(c, p) == Cardinality({k \in 1..Len(c.invoked) : c.invoked[k].p = p})

\* A stretch of the call number i, from c up to its next suspension or its
\* return: o1 is how post_to_twitter ends if invoked, ff and bf where the
\* requests of Farcaster and Bluesky fail.
stretch(i, c, resume, args, o1, ff, bf) ==
    LET far    == post_to_farcaster(args.farcaster_text, args.urls, c.image, i,
                                    Invocations(c, 2) + 1, ff)
        bsky   == create_post(bluesky_client, c.image, args.image_len, i,
                              Invocations(c, 3) + 1, bf)
        oracle == <<o1, far.out, bsky.out>>
        c2     == IF resume THEN after_backoff(c, oracle) ELSE post_to_social(c, oracle)
        did(p) == Invocations(c2, p) > Invocations(c, p)
    IN  /\ Faults(c, c2) <= budget.faults
        /\ budget' = [budget EXCEPT !.faults = @ - Faults(c, c2),
                                    !.texts = IF resume THEN @ ELSE @ - 1]
        /\ calls' = IF resume THEN [calls EXCEPT ![i] = c2] ELSE Append(calls, c2)
        /\ requests' = requests \o (IF did(2) THEN far.requests ELSE <<>>)
                                \o (IF did(3) THEN bsky.requests ELSE <<>>)
        /\ bluesky_client' = IF did(3) THEN bsky.client ELSE bluesky_client

\* post_to_social(text, image_data), lines 333-348 and on.
post_to_social_call(input) ==
    /\ eval.fn \in {"none", "post_to_social"}
    /\ budget.texts > 0
    /\ \A i \in DOMAIN calls : calls[i].state \notin {"running", "backoff"}
    /\ LET x    == extract_and_clean_text(input.text, TRUE)
           args == [fn |-> "post_to_social", image_len |-> input.image_len,
                    farcaster_text |-> x.cleaned_text, urls |-> x.valid_urls]
       IN  /\ eval' = args
           /\ \E o1 \in Outcomes, ff \in Failures({"imgur", "casts"}),
                 bf \in Failures({"createSession", "uploadBlob", "createRecord"}) :
                  stretch(Len(calls) + 1, NewCall(input.text, input.image, 0), FALSE,
                          args, o1, ff, bf)
    /\ UNCHANGED <<pending_posts, tasks, handler, replies, arrivals>>

\* The backoff sleep of the call is over.
post_to_social_resume(i) ==
    /\ eval.fn = "post_to_social"
    /\ calls[i].state = "backoff"
    /\ \E o1 \in Outcomes, ff \in Failures({"imgur", "casts"}),
          bf \in Failures({"createSession", "uploadBlob", "createRecord"}) :
           stretch(i, calls[i], TRUE, eval, o1, ff, bf)
    /\ UNCHANGED <<pending_posts, tasks, handler, replies, arrivals, eval>>

NextPublish ==
    \/ \E input \in budget.inputs : post_to_social_call(input)
    \/ \E i \in DOMAIN calls : post_to_social_resume(i)

\* The texts published: with no, one, two and three URLs.
PublishTexts ==
    { Concat(<<"a">>),
      Concat(<<"a", " ", "www.", "a">>),
      Concat(<<"www.", "a", " ", "a", " ", "http://", "a">>),
      Concat(<<"www.", "a", " ", "https://", "a", " ", "www.", "a", "a">>) }

NoImage == [image |-> FALSE, image_len |-> 0]
Image(n) == [image |-> TRUE, image_len |-> n]

Input(text, image_data) ==
    [text |-> text, image |-> image_data.image, image_len |-> image_data.image_len]

FarcasterFaults == 2
FarcasterInputs ==
    {Input(text, image_data) : text \in PublishTexts, image_data \in {NoImage, Image(max_image_bytes)}}

InitFarcaster ==
    /\ pending_posts = <<>>
    /\ tasks = <<>>
    /\ handler = Idle
    /\ calls = <<>>
    /\ replies = EmptyBag
    /\ arrivals = <<>>
    /\ bluesky_client = NoSession
    /\ requests = <<>>
    /\ eval = NoEval
    /\ budget = [users |-> {}, texts |-> 1, photos |-> 0, faults |-> FarcasterFaults,
                 drops |-> 0, inputs |-> FarcasterInputs]

SpecFarcaster == InitFarcaster /\ [][NextPublish]_vars

BlueskyPosts  == 2
BlueskyFaults == 2
BlueskyInputs ==
    {Input(Concat(<<"a">>), image_data) :
        image_data \in {NoImage, Image(max_image_bytes), Image(max_image_bytes + 1)}}

InitBluesky ==
    /\ pending_posts = <<>>
    /\ tasks = <<>>
    /\ handler = Idle
    /\ calls = <<>>
    /\ replies = EmptyBag
    /\ arrivals = <<>>
    /\ bluesky_client = NoSession
    /\ requests = <<>>
    /\ eval = NoEval
    /\ budget = [users |-> {}, texts |-> BlueskyPosts, photos |-> 0, faults |-> BlueskyFaults,
                 drops |-> 0, inputs |-> BlueskyInputs]

SpecBluesky == InitBluesky /\ [][NextPublish]_vars

(***************************************************************************)
(* Vocabulary of the properties.                                           *)
(***************************************************************************)
\* The invocations of post_to_social made with text x.
CallsFor(x) == {i \in DOMAIN calls : calls[i].text = x}

\* The updates of user u, as places in arrivals, in order of arrival.
Updates(u) == SelectSeq([i \in 1..Len(arrivals) |-> i], LAMBDA i : arrivals[i].user = u)

\* The timer task handle_message created for text x: the k-th text made the
\* k-th task.
TaskOf(x) == Cardinality({i \in Texts : i <= x})

\* Nothing runs for user u: no timer task is left and no handler is in flight.
Quiet(u) == LiveTasks(u) = {} /\ handler.user # u

\* The replies that went through and answer text x.
RECURSIVE Copies(_)
Copies(S) ==
    IF S = {} THEN 0
    ELSE LET r == CHOOSE r \in S : TRUE
         IN  CopiesIn(r, replies) + Copies(S \ {r})
Delivered(x) == Copies({r \in BagToSet(replies) : r.text = x /\ r.ok})

\* No call of the transport has raised or was cut off.
TransportWorked ==
    /\ \A r \in BagToSet(replies) : r.ok
    /\ \A i \in DOMAIN arrivals : arrivals[i].fetched # "failed"

(***************************************************************************)
(* C1.  When a user sends text T1 and then text T2 before T1's window has  *)
(* elapsed, and nothing else, then once nothing runs for the user any more *)
(* T1's timer was cancelled, T1 was never passed to post_to_social, and T2 *)
(* was passed to it exactly once, without image, by T2's timer.            *)
(***************************************************************************)
C1_Scenario(u) ==
    LET mine == Updates(u)
    IN  /\ Len(mine) = 2
        /\ arrivals[mine[1]].kind = "text" /\ arrivals[mine[1]].phase = "idle"
        /\ arrivals[mine[2]].kind = "text" /\ arrivals[mine[2]].phase = "window"
        /\ Quiet(u)

C1_SecondTextPublishedOnce ==
    \A u \in Users :
        C1_Scenario(u) =>
            LET T1 == Updates(u)[1]
                T2 == Updates(u)[2]
            IN  /\ tasks[TaskOf(T1)].pc = "cancelled"
                /\ CallsFor(T1) = {}
                /\ Cardinality(CallsFor(T2)) = 1
                /\ \A i \in CallsFor(T2) : ~calls[i].image /\ calls[i].by = TaskOf(T2)

(***************************************************************************)
(* C2.  Every user has at most one active debounce timer (a wait_and_post  *)
(* task that was started and is neither cancelled nor finished), and       *)
(* pending_posts holds at most one entry per user (it is a dict keyed by   *)
(* the user).                                                              *)
(***************************************************************************)
ActiveTimers(u) ==
    {t \in DOMAIN tasks :
        /\ tasks[t].user = u
        /\ tasks[t].pc \notin Final \cup {"new"}
        /\ ~tasks[t].cancel}

C2_AtMostOneActiveTimer ==
    \A u \in Users : Cardinality(ActiveTimers(u)) <= 1

(***************************************************************************)
(* C3.  post_to_social is invoked at most once for any one stored text.    *)
(***************************************************************************)
C3_PublishedAtMostOnce ==
    \A x \in Texts : Cardinality(CallsFor(x)) <= 1

(***************************************************************************)
(* C4.  A text that no later text of its user supersedes has, once nothing *)
(* runs for the user any more, exactly one reply.  Stated for the runs in  *)
(* which every call of the transport went through, so that a missing reply *)
(* is the program's doing.                                                 *)
(***************************************************************************)
LastText(u, x) ==
    /\ x \in Texts
    /\ arrivals[x].user = u
    /\ \A y \in Texts : arrivals[y].user = u => y <= x

C4_ExactlyOneReply ==
    \A u \in Users : \A x \in Texts :
        (LastText(u, x) /\ Quiet(u) /\ TransportWorked) => Delivered(x) = 1

(***************************************************************************)
(* C5.  From Idle, a text followed by a photo of the same user before the  *)
(* window has elapsed: the timer is cancelled and never publishes, every   *)
(* invocation of post_to_social for the text is made by handle_photo with  *)
(* the image, there is never more than one, and once handle_photo is over  *)
(* the entry is gone.  As claimed: exactly one invocation.  As amended:    *)
(* exactly one when the photo was fetched, and none when get_file or       *)
(* download_to_memory raised.                                              *)
(***************************************************************************)
C5_Scenario(u) ==
    LET mine == Updates(u)
    IN  /\ Len(mine) = 2
        /\ arrivals[mine[1]].kind = "text" /\ arrivals[mine[1]].phase = "idle"
        /\ arrivals[mine[2]].kind = "photo" /\ arrivals[mine[2]].phase = "window"

C5_TimerCancelled(u) ==
    LET T == Updates(u)[1]
        t == TaskOf(T)
    IN  /\ tasks[t].cancel \/ tasks[t].pc = "cancelled"
        /\ tasks[t].call = 0
        /\ \A i \in CallsFor(T) : calls[i].image /\ calls[i].by = 0
        /\ Cardinality(CallsFor(T)) <= 1
        /\ Quiet(u) => u \notin DOMAIN pending_posts

C6_Scenario(u) ==
    LET mine == Updates(u)
    IN  /\ Len(mine) >= 1
        /\ arrivals[mine[1]].kind = "text" /\ arrivals[mine[1]].phase = "idle"
        /\ Len(mine) >= 2 => arrivals[mine[2]].phase # "window"
        /\ tasks[TaskOf(mine[1])].pc \in Final

C6_TextOnlyPublishedOnce ==
    \A u \in Users :
        (C6_Scenario(u) /\ TransportWorked) =>
            LET T == Updates(u)[1]
            IN  /\ Cardinality(CallsFor(T)) = 1
                /\ \A i \in CallsFor(T) :
                       /\ ~calls[i].image
                       /\ calls[i].state = "returned"
                       /\ CopiesIn(Reply(arrivals[T].chat, calls[i].status, T, TaskOf(T), TRUE),
                                   replies) = 1
                /\ Quiet(u) => u \notin DOMAIN pending_posts

(***************************************************************************)
(* C7.  Once no timer task and no handler runs for a user, pending_posts   *)
(* has no entry for that user.                                             *)
(***************************************************************************)
C7_NoOrphanedEntry ==
    \A u \in Users : Quiet(u) => u \notin DOMAIN pending_posts

\* The exit path on which both sends of the timer task raised.
C7_Witness ==
    \E t \in DOMAIN tasks :
        /\ tasks[t].pc = "failed"
        /\ Quiet(tasks[t].user)
        /\ tasks[t].user \notin DOMAIN pending_posts

(***************************************************************************)
(* C8.  A photo of a user without entry in pending_posts: handle_photo     *)
(* only calls reply_text("Please send text first.") once, in the chat of   *)
(* the photo.  Neither step of it invokes post_to_social, creates or       *)
(* cancels a timer, or changes pending_posts.                              *)
(***************************************************************************)
C8_PhotoWithoutText ==
    [][ /\ ( /\ Len(arrivals') = Len(arrivals) + 1
             /\ arrivals'[Len(arrivals')].kind = "photo"
             /\ arrivals'[Len(arrivals')].user \notin DOMAIN pending_posts )
           => /\ handler'.pc = "prompt"
              /\ UNCHANGED <<pending_posts, tasks, calls, replies>>
        /\ ( handler.pc = "prompt" /\ handler' # handler )
           => /\ handler' = Idle
              /\ UNCHANGED <<pending_posts, tasks, calls, arrivals>>
              /\ \E ok \in BOOLEAN :
                     replies' = replies (+) SetToBag({[chat |-> handler.chat,
                                                       msg |-> "Please send text first.",
                                                       text |-> 0, by |-> 0, ok |-> ok]})
      ]_vars

\* The prompt was sent to one user while the other user's entry is pending.
C8_Witness ==
    /\ handler = Idle
    /\ \E r \in BagToSet(replies) : r.msg = "Please send text first." /\ r.ok
    /\ \E u \in Users :
           /\ u \in DOMAIN pending_posts
           /\ \E i \in Photos : arrivals[i].user # u /\ arrivals[i].phase = "idle"

(***************************************************************************)
(* C9.  An invocation of post_to_social is left by an error only when its  *)
(* task is cancelled: no outcome of a publisher ends it.  When it has      *)
(* returned every platform was invoked, Twitter first, then                *)
(* Farcaster, then Bluesky; its status message is not empty; and the flag  *)
(* of a platform is set exactly when its retry-wrapped call returned, and  *)
(* clear exactly when that call raised: its last invocation raised a hard  *)
(* failure, or all max_retries invocations were rate-limited.              *)
(***************************************************************************)
Outs(c, p) == SelectSeq(c.invoked, LAMBDA e : e.p = p)

WrappedReturned(c, p) ==
    LET outs == Outs(c, p)
    IN  outs # <<>> /\ outs[Len(outs)].out = "ok"

WrappedRaised(c, p) ==
    LET outs == Outs(c, p)
    IN  /\ outs # <<>>
        /\ \/ outs[Len(outs)].out \in {"hard", "down"}
           \/ Len(outs) = max_retries /\ \A k \in 1..Len(outs) : outs[k].out = "rate"

C9_AllPlatformsAttempted ==
    \A i \in DOMAIN calls :
        LET c == calls[i]
        IN  /\ c.state = "aborted" => (c.by # 0 /\ tasks[c.by].pc = "cancelled")
            /\ c.state = "returned" =>
                   /\ \A p \in 1..NPlatforms : Outs(c, p) # <<>>
                   /\ \A j, k \in 1..Len(c.invoked) : j < k => c.invoked[j].p <= c.invoked[k].p
                   /\ c.status # ""
                   /\ \A p \in 1..NPlatforms :
                          /\ c.success[p] <=> WrappedReturned(c, p)
                          /\ ~c.success[p] <=> WrappedRaised(c, p)

\* Twitter rate-limited on all attempts, Farcaster a hard failure, Bluesky posted.
C9_Witness ==
    \E i \in DOMAIN calls :
        /\ calls[i].state = "returned"
        /\ Len(Outs(calls[i], 1)) = max_retries
        /\ WrappedRaised(calls[i], 1)
        /\ Outs(calls[i], 2) = <<[p |-> 2, out |-> "hard"]>>
        /\ calls[i].success = <<FALSE, FALSE, TRUE>>

(***************************************************************************)
(* C10.  The status message of a returned invocation lists every platform  *)
(* once, the posted ones and the failed ones each in the order Bluesky,    *)
(* Farcaster, X and joined by ", ": "Posted: .." when nothing failed,      *)
(* "Failed: .." when nothing was posted, "Posted: .. / Failed: .."         *)
(* otherwise.                                                              *)
(***************************************************************************)
Alphabetical == <<"Bluesky", "Farcaster", "X">>

\* The flag of a display name: X is Twitter.
FlagOf(success, name) ==
    CASE name = "Bluesky" -> success[3] [] name = "Farcaster" -> success[2] [] name = "X" -> success[1]

CommaList(names) ==
    CASE Len(names) = 1 -> names[1]
      [] Len(names) = 2 -> names[1] \o ", " \o names[2]
      [] Len(names) = 3 -> names[1] \o ", " \o names[2] \o ", " \o names[3]

ExpectedStatus(success) ==
    LET posted == SelectSeq(Alphabetical, LAMBDA n : FlagOf(success, n))
        failed == SelectSeq(Alphabetical, LAMBDA n : ~FlagOf(success, n))
    IN  IF failed = <<>> THEN "Posted: " \o CommaList(posted)
        ELSE IF posted = <<>> THEN "Failed: " \o CommaList(failed)
        ELSE "Posted: " \o CommaList(posted) \o " / Failed: " \o CommaList(failed)

C10_StatusMessage ==
    \A i \in DOMAIN calls :
        calls[i].state = "returned" => calls[i].status = ExpectedStatus(calls[i].success)

C10_Witness ==
    \E i \in DOMAIN calls :
        /\ calls[i].state = "returned"
        /\ calls[i].success = <<FALSE, TRUE, FALSE>>
        /\ calls[i].status = "Posted: Farcaster / Failed: Bluesky, X"

(***************************************************************************)
(* Vocabulary of post_with_retry: one run of it is the retry-wrapped call  *)
(* of platform p inside the invocation c of post_to_social.                *)
(***************************************************************************)
\* The invocations of platform p, as places in c.invoked.
InvokedAt(c, p) == SelectSeq([k \in 1..Len(c.invoked) |-> k], LAMBDA k : c.invoked[k].p = p)

\* The backoff sleeps of the run.
SleepsOf(c, p) == SelectSeq(c.sleeps, LAMBDA e : e.p = p)

\* The run is over: post_to_social has gone on to the next platform.
Finished(c, p) == c.p > p

(***************************************************************************)
(* C11.  post_with_retry invokes the operation at least once and at most   *)
(* max_retries times.  Only a rate-limit failure is followed by another    *)
(* invocation.  A run that ends with a successful invocation returns the   *)
(* result of that invocation; a run that ends with a failure that does not *)
(* carry status 429 raises that same failure, with no backoff sleep after  *)
(* it.                                                                     *)
(***************************************************************************)
C11_RetryLoop ==
    \A i \in DOMAIN calls : \A p \in 1..NPlatforms :
        LET c    == calls[i]
            at   == InvokedAt(c, p)
            outs == Outs(c, p)
            n    == Len(outs)
        IN  /\ n <= max_retries
            /\ \A k \in 1..(n - 1) : outs[k].out = "rate"
            /\ Finished(c, p) =>
                   /\ n >= 1
                   /\ outs[n].out = "ok" =>
                          /\ ~c.raised[p]
                          /\ c.got[p] = at[n]
                          /\ Len(SleepsOf(c, p)) = n - 1
                   /\ outs[n].out \notin {"ok", "rate"} =>
                          /\ c.raised[p]
                          /\ c.got[p] = at[n]
                          /\ Len(SleepsOf(c, p)) = n - 1

(***************************************************************************)
(* C12.  When every invocation of a run fails with a rate-limit failure,   *)
(* the run makes exactly max_retries invocations and raises the failure of *)
(* the last of them.                                                       *)
(***************************************************************************)
C12_ExhaustedRaisesLast ==
    \A i \in DOMAIN calls : \A p \in 1..NPlatforms :
        LET c  == calls[i]
            at == InvokedAt(c, p)
        IN  (Finished(c, p) /\ \A k \in 1..Len(at) : c.invoked[at[k]].out = "rate") =>
                /\ Len(at) = max_retries
                /\ c.raised[p]
                /\ c.got[p] = at[max_retries]

\* Farcaster was rate-limited on all attempts.
C12_Witness ==
    \E i \in DOMAIN calls :
        /\ Finished(calls[i], 2)
        /\ Len(Outs(calls[i], 2)) = max_retries
        /\ \A k \in 1..max_retries : Outs(calls[i], 2)[k].out = "rate"
        /\ calls[i].got[2] = InvokedAt(calls[i], 2)[max_retries]

(***************************************************************************)
(* C13.  In a finished run of post_with_retry the number of backoff sleeps *)
(* is the number of invocations minus one.                                 *)
(***************************************************************************)
C13_SleepsBetweenInvocations ==
    \A i \in DOMAIN calls : \A p \in 1..NPlatforms :
        Finished(calls[i], p) =>
            Len(SleepsOf(calls[i], p)) = Len(InvokedAt(calls[i], p)) - 1

(***************************************************************************)
(* C14.  The delay exponential_backoff returns for attempt n is base plus  *)
(* jitter with base = min(32, 2^n) and 0 <= jitter <= base/10; it is never *)
(* above 35.2; and within one run of post_with_retry the bases are 1, 2, 4 *)
(* in that order.  As claimed: the delay lies in [2^n, 1.1 * 2^n].  As     *)
(* amended: it lies in [base, 1.1 * base], which is [2^n, 1.1 * 2^n] for   *)
(* n up to 5 only.                                                         *)
(***************************************************************************)
Evaluated == eval.fn = "exponential_backoff" /\ eval.done

C14_Base(n) == IF Pow2(n) > 32 THEN 32 ELSE Pow2(n)

C14_BasesInOrder ==
    \A i \in DOMAIN calls : \A p \in 1..NPlatforms :
        LET sl == SleepsOf(calls[i], p)
        IN  /\ Len(sl) <= 3
            /\ \A j \in 1..Len(sl) : \A r \in 0..Grain :
                   exponential_backoff(sl[j].attempt, r).delay = <<1, 2, 4>>[j] * Unit

C14_Delay ==
    Evaluated =>
        /\ eval.out.delay = C14_Base(eval.attempt) * Unit
        /\ eval.out.jitter >= 0
        /\ 10 * eval.out.jitter <= eval.out.delay
        /\ eval.out.final_delay = eval.out.delay + eval.out.jitter
        /\ 10 * eval.out.final_delay <= 352 * Unit

C14_Original ==
    /\ C14_Delay
    /\ C14_BasesInOrder
    /\ Evaluated =>
           /\ eval.out.final_delay >= Pow2(eval.attempt) * Unit
           /\ 10 * eval.out.final_delay <= 11 * Pow2(eval.attempt) * Unit

C14_BackoffDelay ==
    /\ C14_Delay
    /\ C14_BasesInOrder
    /\ Evaluated =>
           /\ eval.out.final_delay >= eval.out.delay
           /\ 10 * eval.out.final_delay <= 11 * eval.out.delay
           /\ eval.attempt <= 5 =>
                  /\ eval.out.final_delay >= Pow2(eval.attempt) * Unit
                  /\ 10 * eval.out.final_delay <= 11 * Pow2(eval.attempt) * Unit

\* The capped delay with the largest jitter, 35.2, next to a run of
\* post_with_retry that slept three times.
C14_Witness ==
    /\ Evaluated
    /\ eval.attempt = 6
    /\ 10 * eval.out.final_delay = 352 * Unit
    /\ \E i \in DOMAIN calls : Len(SleepsOf(calls[i], 1)) = 3

(***************************************************************************)
(* C15.  When an invocation of post_to_social has ended (returned, or left *)
(* by an error or a cancellation), no temporary file that post_to_twitter  *)
(* wrote during it exists any more.                                        *)
(***************************************************************************)
C15_NoTempFileLeft ==
    \A i \in DOMAIN calls :
        calls[i].state \in {"returned", "aborted"} => calls[i].files = {}

(***************************************************************************)
(* C19.  extract_and_clean_text returns at most 2 URLs, each of at most    *)
(* 256 UTF-8 bytes: the first two matches of the URL pattern, in order of  *)
(* appearance, that are within the limit.  The cleaned text it returns has *)
(* no substring that matches the URL pattern.                              *)
(***************************************************************************)
C19_UrlsAndCleanedText ==
    (eval.fn = "extract_and_clean_text" /\ eval.passes >= 1) =>
        LET urls    == eval.first.valid_urls
            matches == findall(eval.text, 1)
            within  == SelectSeq(matches, LAMBDA url : encoded_len(url) <= 256)
        IN  /\ Len(urls) <= 2
            /\ \A k \in 1..Len(urls) : encoded_len(urls[k]) <= 256
            /\ Len(urls) = (IF Len(within) <= 2 THEN Len(within) ELSE 2)
            /\ \A k \in 1..Len(urls) : urls[k] = within[k]
            /\ \A i \in 1..Len(eval.first.cleaned_text) :
                   ~MatchesAt(eval.first.cleaned_text, i)

(***************************************************************************)
(* C20.  extract_and_clean_text applied to the cleaned text it returned,   *)
(* in the same mode, returns that cleaned text again and no URL.           *)
(***************************************************************************)
C20_Idempotent ==
    (eval.fn = "extract_and_clean_text" /\ eval.passes = 2) =>
        /\ eval.second.cleaned_text = eval.first.cleaned_text
        /\ eval.second.valid_urls = <<>>

(***************************************************************************)
(* Vocabulary of the publishers' requests.                                 *)
(***************************************************************************)
\* The requests, as places in the log, that invocation number attempt of a
\* publisher made for the call i to one of the endpoints.
RequestsOf(i, attempt, endpoints) ==
    {j \in DOMAIN requests :
        /\ requests[j].call = i
        /\ requests[j].attempt = attempt
        /\ requests[j].to \in endpoints}

BlueskyEndpoints == {"createSession", "uploadBlob", "createRecord"}

(***************************************************************************)
(* C16.  The payload of every request to the Farcaster endpoint: with an   *)
(* image, the text is the cleaned text with exactly one newline appended,  *)
(* at the first invocation and at every retry, and the embeds are the      *)
(* hosted image link and then the first retained URL if there is one;      *)
(* without an image the text is the cleaned text and the embeds are the    *)
(* first at most 2 retained URLs in order, and there is no embeds field    *)
(* when no URL was retained.  Never more than 2 embeds.                    *)
(***************************************************************************)
C16_FarcasterPayload ==
    \A j \in DOMAIN requests :
        requests[j].to = "casts" =>
            LET c       == calls[requests[j].call]
                payload == requests[j].json
                cleaned == extract_and_clean_text(c.text, TRUE)
                urls    == cleaned.valid_urls
                embeds  == IF "embeds" \in DOMAIN payload THEN payload.embeds ELSE <<>>
            IN  /\ Len(embeds) <= 2
                /\ "embeds" \in DOMAIN payload => embeds # <<>>
                /\ c.image =>
                       /\ payload.text = cleaned.cleaned_text \o <<"\n">>
                       /\ embeds = IF urls = <<>> THEN <<ImgurLink>>
                                   ELSE <<ImgurLink, urls[1]>>
                /\ ~c.image =>
                       /\ payload.text = cleaned.cleaned_text
                       /\ embeds = CASE Len(urls) = 0 -> <<>>
                                     [] Len(urls) = 1 -> <<urls[1]>>
                                     [] OTHER         -> <<urls[1], urls[2]>>

\* A post with an image and two retained URLs whose Farcaster request was
\* rate-limited and made again.
C16_Witness ==
    \E j, k \in DOMAIN requests :
        /\ j < k
        /\ requests[j].to = "casts" /\ requests[j].out = "rate" /\ requests[j].attempt = 1
        /\ requests[k].to = "casts" /\ requests[k].out = "ok" /\ requests[k].attempt = 2
        /\ requests[j].call = requests[k].call
        /\ calls[requests[j].call].image
        /\ Len(eval.urls) = 2
        /\ requests[k].json.embeds = <<ImgurLink, eval.urls[1]>>
        /\ requests[k].json.text = eval.farcaster_text \o <<"\n">>

(***************************************************************************)
(* C17.  The call that is running or ran last, when its image has more     *)
(* than 1,000,000 bytes: no request for the blob upload or the record      *)
(* creation is made, Bluesky is recorded and reported as failed, and the   *)
(* flags of Twitter and Farcaster are those of their own invocations.  As  *)
(* claimed: the Bluesky publisher is invoked once only.  As amended: it is *)
(* invoked again only after an invocation whose session creation was       *)
(* rate-limited, and never after the one that met the size check.  An      *)
(* image of exactly 1,000,000 bytes is uploaded by every invocation that   *)
(* gets a session.                                                         *)
(***************************************************************************)
Current == Len(calls)

TooLarge == eval.fn = "post_to_social" /\ calls[Current].image /\ eval.image_len > 1000000

AtLimit  == eval.fn = "post_to_social" /\ calls[Current].image /\ eval.image_len = 1000000

C17_Rejected ==
    TooLarge =>
        LET c == calls[Current]
        IN  /\ \A j \in DOMAIN requests :
                   requests[j].call = Current => requests[j].to \notin {"uploadBlob", "createRecord"}
            /\ ~c.success[3]
            /\ c.state = "returned" => c.status = ExpectedStatus(c.success)
            /\ \A p \in {1, 2} : Finished(c, p) => (c.success[p] <=> WrappedReturned(c, p))

C17_LimitIncluded ==
    AtLimit =>
        \A attempt \in 1..Invocations(calls[Current], 3) :
            \/ RequestsOf(Current, attempt, {"uploadBlob"}) # {}
            \/ \E j \in RequestsOf(Current, attempt, {"createSession"}) : requests[j].out # "ok"

C17_Original ==
    /\ C17_Rejected
    /\ C17_LimitIncluded
    /\ TooLarge => Invocations(calls[Current], 3) <= 1

C17_ImageTooLarge ==
    /\ C17_Rejected
    /\ C17_LimitIncluded
    /\ TooLarge =>
           LET c    == calls[Current]
               outs == Outs(c, 3)
           IN  \A attempt \in 1..(Len(outs) - 1) :
                   /\ outs[attempt].out = "rate"
                   /\ \A j \in RequestsOf(Current, attempt, BlueskyEndpoints) :
                          requests[j].to = "createSession" /\ requests[j].out = "rate"
                   /\ RequestsOf(Current, attempt, BlueskyEndpoints) # {}

\* The session was created, the image was rejected, the other two posted.
C17_Witness ==
    /\ TooLarge
    /\ calls[Current].state = "returned"
    /\ \E j \in RequestsOf(Current, 1, {"createSession"}) : requests[j].out = "ok"
    /\ Outs(calls[Current], 3) = <<[p |-> 3, out |-> "hard"]>>
    /\ calls[Current].status = "Posted: Farcaster, X / Failed: Bluesky"

(***************************************************************************)
(* C18.  An invocation of the Bluesky publisher begins with the request    *)
(* that creates the session exactly when no such request has succeeded     *)
(* before; no other request for a session is ever made; and the client     *)
(* holds a session exactly when one such request has succeeded.            *)
(***************************************************************************)
SessionCreatedBefore(j) ==
    \E k \in 1..(j - 1) : requests[k].to = "createSession" /\ requests[k].out = "ok"

FirstOfInvocation(j) ==
    \A k \in 1..(j - 1) :
        ~ ( /\ requests[k].to \in BlueskyEndpoints
            /\ requests[k].call = requests[j].call
            /\ requests[k].attempt = requests[j].attempt )

C18_SessionOnlyWhenNone ==
    /\ \A j \in DOMAIN requests :
           requests[j].to \in BlueskyEndpoints =>
               (requests[j].to = "createSession"
                    <=> (FirstOfInvocation(j) /\ ~SessionCreatedBefore(j)))
    /\ bluesky_client.session <=> SessionCreatedBefore(Len(requests) + 1)

\* The first publish failed to create the session; the second created it,
\* was rate-limited at the record and made the next request with the session.
C18_Witness ==
    \E j1, j2, j3, j4 \in DOMAIN requests :
        /\ j1 < j2 /\ j2 < j3 /\ j3 < j4
        /\ requests[j1].to = "createSession" /\ requests[j1].out # "ok" /\ requests[j1].call = 1
        /\ requests[j2].to = "createSession" /\ requests[j2].out = "ok" /\ requests[j2].call = 2
        /\ requests[j3].to = "createRecord" /\ requests[j3].out = "rate"
        /\ requests[j4].to \in {"uploadBlob", "createRecord"}
        /\ requests[j4].attempt = requests[j3].attempt + 1

(***************************************************************************)
(* C21.  The step in which a cancelled timer task ends leaves the entry    *)
(* that a newer text of its user stored (an entry whose task handle is     *)
(* another task) in pending_posts, with the same text, chat id and task.   *)
(***************************************************************************)
\* Task t ends by its cancellation in this step.
EndsCancelled(t) == tasks[t].pc \notin Final /\ tasks'[t].pc = "cancelled"

\* pending_posts holds for the user of task t the entry of a newer text.
Superseded(t) ==
    /\ tasks[t].user \in DOMAIN pending_posts
    /\ pending_posts[tasks[t].user].task > t

EntryKept(u) == u \in DOMAIN pending_posts' /\ pending_posts'[u] = pending_posts[u]

C21_CleanupOnlyOwnEntry ==
    [][ \A t \in DOMAIN tasks :
            (EndsCancelled(t) /\ Superseded(t)) => EntryKept(tasks[t].user) ]_vars

(***************************************************************************)
(* C22.  A timer task that has invoked post_to_social is not cancelled by  *)
(* a later text or photo of its user; its invocation is never left         *)
(* part-way; when the task is over the invocation has returned with all    *)
(* three publishers attempted and the task has called send_message with    *)
(* the status message; and the step in which the task ends leaves the      *)
(* entry of a text that arrived meanwhile in pending_posts, unchanged.     *)
(***************************************************************************)
\* Task t is a timer-triggered publish that has started and is not over.
Publishing(t) == tasks[t].call # 0 /\ tasks[t].pc \notin Final

\* Task t has called send_message with the status message of its invocation.
StatusSent(t) ==
    \E r \in BagToSet(replies) :
        r.by = t /\ r.msg = calls[tasks[t].call].status /\ r.text = tasks[t].text

RanToCompletion(t) ==
    LET c == calls[tasks[t].call]
    IN  /\ c.state # "aborted"
        /\ tasks[t].pc \in Final =>
               /\ c.state = "returned"
               /\ \A p \in 1..NPlatforms : Outs(c, p) # <<>>
               /\ StatusSent(t)

C22_PublishRunsToCompletion ==
    [][ \A t \in DOMAIN tasks :
            /\ Publishing(t) =>
                   /\ tasks'[t].cancel = tasks[t].cancel
                   /\ RanToCompletion(t)'
                   /\ (tasks'[t].pc \in Final /\ Superseded(t)) => EntryKept(tasks[t].user) ]_vars

====
